---- MODULE Spec2Model ----
(***************************************************************************)
(* Dispatch core of bevy_remote (crates/bevy_remote/src/lib.rs): the       *)
(* per-connection protocol tasks, the bounded mailbox, the per-request     *)
(* result channels, and the per-frame system process_remote_requests with  *)
(* its ActiveStream entities.                                              *)
(***************************************************************************)
EXTENDS Integers, Sequences, FiniteSets, TLC

(* ------------------------------ bounds -------------------------------- *)
NConn == 2
MaxBatch == 2
MaxYields == 1
MaxRegs == 3
MaxCalls == 4
CountCap == MaxYields + 1
CHANNEL_SIZE == 16
RESULT_CHANNEL_SIZE == 1

Conns == 1..NConn

(* ------------------------------ JSON values --------------------------- *)
\* serde_json::Value, as far as the front end looks into it.  Option<T> is
\* <<>> (None) or <<v>> (Some(v)).
Null == <<"null">>
Num(n) == <<"num", n>>
None == <<>>
Some(v) == <<v>>
NoField == "absent"

\* One element of a request body: a JSON value that is an object or not, and
\* the members of the object the front end reads.
Item(obj, id, jsonrpc, method, params) ==
  [obj |-> obj, id |-> id, jsonrpc |-> jsonrpc, method |-> method, params |-> params]

NonObject == Item(FALSE, None, NoField, NoField, 0)

EarlyIdAfterParse(item) == IF item.obj /\ item.jsonrpc # NoField /\ item.method # NoField THEN item.id ELSE None

\* request.as_object().and_then(|map| map.get("id")).cloned()
EarlyId(item) == IF item.obj THEN item.id ELSE None

DeserializeIdDropped(id) == None

\* serde: Option<Value> reads a missing member and a null member as None.
DeserializeId(id) == IF id = None \/ id = Some(Null) THEN None ELSE id

\* serde: BrpResponse.id is always written; None is written as null.
SerializeId(id) == IF id = None THEN Null ELSE id[1]

\* serde_json::from_value::<BrpRequest>: jsonrpc and method are required
\* strings, id and params are optional.
FromValueOk(item) == item.obj /\ item.jsonrpc # NoField /\ item.method # NoField

BrpRequest(item) ==
  [jsonrpc |-> item.jsonrpc, method |-> item.method,
   id |-> DeserializeId(item.id), params |-> item.params]

VersionOkAny(item) == TRUE

\* request.jsonrpc != "2.0" is rejected.
VersionOk(item) == item.jsonrpc = "2.0"

ItemValid(item) == FromValueOk(item) /\ VersionOk(item)

(* ------------------------------ results ------------------------------- *)
\* BrpResult: Ok(value) or Err(BrpError).  "of" names the invocation the
\* value was computed for (the handler's input), <<>> for front-end errors.
Ok(of) == [ok |-> TRUE, code |-> "none", of |-> of]
Err(code, of) == [ok |-> FALSE, code |-> code, of |-> of]

\* A response that loses the id.
BrpResponseNewNullId(id, result) == [jsonrpc |-> "2.0", id |-> Null, payload |-> result]

\* BrpResponse::new
BrpResponseNew(id, result) == [jsonrpc |-> "2.0", id |-> SerializeId(id), payload |-> result]

\* BrpError written alone as the body (no envelope around it).
ErrorBody(code) == [kind |-> "error", v |-> Err(code, <<>>)]

(* ------------------------------ state --------------------------------- *)
VARIABLES
  mbox,      \* BrpMailbox resource: "none" before start_server, "open", "dropped" once the World is gone
  mailbox,   \* messages queued in the bounded request channel
  chan,      \* per message id: the bounded(1) result channel (buf) and whether its Receiver is alive (rx)
  conn,      \* per connection: the protocol task's position and local data
  streams,   \* ActiveStream entities (the messages they hold)
  pc,        \* process_remote_requests: "idle", "drain", "run", "streams", "blocked"
  cur,       \* the message the system is working on
  pend,      \* the result a blocked send_blocking is holding
  todo,      \* streams collected by this run and not yet invoked
  toRemove,  \* to_remove
  drained,   \* message ids try_recv has handed to the system (history)
  invoked,   \* per message id: handler invocations so far (history, saturates at CountCap)
  pushed,    \* per message id: send_blocking calls returned on its channel (history, saturates at CountCap)
  methods,   \* RemoteMethods: the HashMap from method name to RemoteMethod
  returned,  \* what the last RemoteMethods::insert returned
  regs,      \* the insert calls made so far, in order (history)
  tickInv,   \* per message id: stream handler invocations in the running stream pass (history)
  yielded,   \* per message id: stream handler invocations that returned a result or failed (history)
  term,      \* per message id: the first ending condition its stream met, "none" before (history)
  spawned,   \* per message id: ActiveStream entities spawned for it (history)
  despawned, \* per message id: despawns of its ActiveStream entity (history)
  waiting,   \* message ids that entered the mailbox and were not dealt with yet, oldest first (history)
  quota,     \* messages the mailbox held when the running drain loop began, less those taken since (history)
  plugin     \* RemotePlugin: the methods and streaming_methods lists, and whether build has run

regVars == <<methods, returned, regs, plugin>>
obsVars == <<tickInv, yielded, term, spawned, despawned, waiting, quota>>
vars == <<mbox, mailbox, chan, conn, streams, pc, cur, pend, todo, toRemove, drained, invoked, pushed,
          regVars, obsVars>>
tickVars == <<pc, cur, pend, todo, toRemove>>
histVars == <<drained, invoked, pushed>>

MsgIds == Conns \X (1..MaxBatch)
NoMsg == [id |-> <<0, 0>>, method |-> NoField, params |-> 0]
NoResult == [ok |-> FALSE, code |-> "none", of |-> <<>>]

\* The methods the plugin is configured with: the names known to the server.
Registry == [ping |-> "Normal", watch |-> "Stream"]

\* RemoteMethod::Normal(SystemId) or RemoteMethod::Stream(SystemId)
RemoteMethod(kind, sys) == [kind |-> kind, sys |-> sys]

\* RemoteMethods::new
NewMethods == <<>>

\* HashMap::get
Get(map, name) == IF name \in DOMAIN map THEN Some(map[name]) ELSE None

\* An insert that leaves the entry of a name already present as it is.
InsertMapKeepsOld(map, name, handler) ==
  IF name \in DOMAIN map THEN map
  ELSE [n \in DOMAIN map \cup {name} |-> IF n = name THEN handler ELSE map[n]]

\* HashMap::insert, the map it leaves: the entry of name written, the others kept.
InsertMap(map, name, handler) ==
  [n \in DOMAIN map \cup {name} |-> IF n = name THEN handler ELSE map[n]]

\* The method lists the plugin was given (with_method, with_stream_method).
PluginMethods == <<"ping">>
PluginStreamingMethods == <<"watch">>

\* RemotePlugin::build: every plugin method inserted as Normal, then every
\* streaming method as Stream, each with the SystemId of its registration.
RECURSIVE InsertAll(_, _, _, _)
InsertAll(map, names, kind, sys) ==
  IF names = <<>> THEN map
  ELSE InsertAll(InsertMap(map, Head(names), RemoteMethod(kind, sys)), Tail(names), kind, sys + 1)

\* The streaming methods inserted before the normal ones.
BuildStreamsFirst(normal, streaming) ==
  InsertAll(InsertAll(NewMethods, streaming, "Stream", Len(normal) + 1), normal, "Normal", 1)

Build(normal, streaming) ==
  InsertAll(InsertAll(NewMethods, normal, "Normal", 1), streaming, "Stream", Len(normal) + 1)

\* RemotePlugin::empty
Empty == [methods |-> <<>>, streaming_methods |-> <<>>, built |-> FALSE]

\* The plugin once build has drained its two lists.
BuiltPlugin == [methods |-> <<>>, streaming_methods |-> <<>>, built |-> TRUE]

LookupWithDefault(name) == IF name \in DOMAIN methods THEN methods[name].kind ELSE "Normal"

\* methods.0.get(&message.method)
Lookup(name) == IF name \in DOMAIN methods THEN methods[name].kind ELSE "none"

\* BrpMessage { method, params, sender } built from a validated request; the
\* sender is the channel named by id.
BrpMessage(id, item) == [id |-> id, method |-> BrpRequest(item).method, params |-> BrpRequest(item).params]

\* A sequence of message ids with id taken out.
Without(seq, id) == SelectSeq(seq, LAMBDA x : x # id)

Inc(f, m) == [f EXCEPT ![m] = IF @ < CountCap THEN @ + 1 ELSE @]

(* ------------------------------ channels ------------------------------ *)
InMailbox(m) == \E i \in 1..Len(mailbox) : mailbox[i].id = m
IsStream(m) == \E s \in streams : s.id = m
Sending(m) == conn[m[1]].st = "send" /\ conn[m[1]].k = m[2]

\* A Sender of the result channel is alive while some BrpMessage holding it is.
SendersAlive(m) == InMailbox(m) \/ IsStream(m) \/ cur.id = m \/ Sending(m)

\* send_blocking returns at once unless the channel is open and full.
CanCompleteSend(m) == ~chan[m].rx \/ Len(chan[m].buf) < RESULT_CHANNEL_SIZE

\* Sender::send_blocking(result): Err when the Receiver is gone, else queued.
SendOk(m) == chan[m].rx
ChanAfterSend(m, r) == IF chan[m].rx THEN [chan EXCEPT ![m].buf = Append(@, r)] ELSE chan
PushedAfterSend(m) == Inc(pushed, m)

\* Receiver::recv: a queued value first, Err once empty with no Sender left.
RecvReady(m) == Len(chan[m].buf) > 0
RecvClosed(m) == Len(chan[m].buf) = 0 /\ ~SendersAlive(m)

(* ------------------------------ front end ----------------------------- *)
\* process_single_request up to its early returns: Some(response) when the
\* item is rejected, None when a message is to be sent.
EarlyReturn(item) ==
  IF ~FromValueOk(item)
    THEN Some(BrpResponseNew(EarlyId(item), Err("INVALID_REQUEST", <<>>)))
    ELSE IF ~VersionOk(item)
      THEN Some(BrpResponseNew(EarlyId(item), Err("INVALID_REQUEST", <<>>)))
      ELSE None

RECURSIVE AdvanceStopAtError(_, _, _)
AdvanceStopAtError(items, k, resps) ==
  IF k > Len(items) THEN [k |-> k, resps |-> resps]
  ELSE IF EarlyReturn(items[k]) = None THEN [k |-> k, resps |-> resps]
  ELSE [k |-> Len(items) + 1, resps |-> Append(resps, EarlyReturn(items[k])[1])]

\* The for loop of process_brp_batch from item k on, up to the next item that
\* reaches the mailbox: the responses gathered and the index it stops at.
RECURSIVE Advance(_, _, _)
Advance(items, k, resps) ==
  IF k > Len(items) THEN [k |-> k, resps |-> resps]
  ELSE IF EarlyReturn(items[k]) = None THEN [k |-> k, resps |-> resps]
  ELSE Advance(items, k + 1, Append(resps, EarlyReturn(items[k])[1]))

\* serde_json::to_string of the single response or of the Vec of responses.
Serialize(shape, resps) ==
  IF shape = "single" THEN [kind |-> "object", v |-> resps[1]]
  ELSE [kind |-> "array", v |-> resps]

IdleConn ==
  [st |-> "idle", kind |-> "none", shape |-> "none", items |-> <<>>, k |-> 0,
   resps |-> <<>>, out |-> None, frames |-> <<>>]

\* The task after the loop stopped at a, with the channels as in ch: finished
\* (the body is serialized), or about to send item a.k on a fresh channel.
AfterAdvance(c, rec, a, ch) ==
  IF a.k > Len(rec.items)
    THEN /\ conn' = [conn EXCEPT ![c] = [rec EXCEPT !.st = "done", !.k = a.k, !.resps = a.resps,
                                                    !.out = Some(Serialize(rec.shape, a.resps))]]
         /\ chan' = ch
    ELSE /\ conn' = [conn EXCEPT ![c] = [rec EXCEPT !.st = "send", !.k = a.k, !.resps = a.resps]]
         /\ chan' = [ch EXCEPT ![<<c, a.k>>] = [buf |-> <<>>, rx |-> TRUE]]

(* ------------------------------ inputs -------------------------------- *)
Methods == {"ping", "watch", "nope"}

\* A well-formed request of connection c: id and params name the connection,
\* so that a value delivered to the wrong requester shows.
Call(c, method) == Item(TRUE, Some(Num(c)), "2.0", method, c)

ValidItems(c) ==
  {Call(c, m) : m \in Methods}
    \cup {Item(TRUE, None, "2.0", "ping", c), Item(TRUE, Some(Null), "2.0", "ping", c)}

\* Rejected items: wrong version, missing method, missing jsonrpc, not an object.
InvalidItems(c) ==
  {Item(TRUE, Some(Num(c)), "1.0", "ping", c),
   Item(TRUE, Some(Num(c)), "2.0", NoField, c),
   Item(TRUE, Some(Null), NoField, "ping", c),
   Item(TRUE, None, "1.0", "ping", c),
   NonObject}

BatchItems(c) ==
  {Call(c, "ping"), Call(c, "nope"), Item(TRUE, Some(Num(c)), "1.0", "ping", c), NonObject}

RECURSIVE SeqsUpTo(_, _)
SeqsUpTo(S, n) ==
  IF n = 0 THEN {<<>>}
  ELSE SeqsUpTo(S, n - 1) \cup {Append(q, x) : q \in {r \in SeqsUpTo(S, n - 1) : Len(r) = n - 1}, x \in S}

\* What serde_json::from_slice::<BrpBatch> can make of a body.  Connection 1
\* posts every kind of body, connection 2 single calls of both kinds of
\* method, any further connection a single Normal call.
Bodies(c) ==
  IF c = 1
    THEN {[shape |-> "garbage", items |-> <<>>]}
           \cup {[shape |-> "single", items |-> <<x>>] : x \in ValidItems(c) \cup InvalidItems(c)}
           \cup {[shape |-> "batch", items |-> q] : q \in SeqsUpTo(BatchItems(c), MaxBatch)}
    ELSE {[shape |-> "single", items |-> <<Call(c, m)>>] : m \in (IF c = 2 THEN {"ping", "watch"} ELSE {"ping"})}

\* What validate_websocket_request can find in the query string.  Connection 2
\* is the one that asks for upgrades.
Queries(c) ==
  IF c = 2
    THEN {[shape |-> "missing", items |-> <<>>], [shape |-> "garbage", items |-> <<>>],
          [shape |-> "batch", items |-> <<>>]}
           \cup {[shape |-> "single", items |-> <<x>>] :
                   x \in {Call(c, m) : m \in Methods}
                           \cup {Item(TRUE, Some(Num(c)), "1.0", "ping", c),
                                 Item(TRUE, Some(Num(c)), "2.0", NoField, c)}}
    ELSE {}

(* ------------------------------ connection tasks ---------------------- *)
\* start_server: the mailbox is created and the accept loop spawned.
StartServer ==
  /\ mbox = "none"
  /\ mbox' = "open"
  /\ UNCHANGED <<mailbox, chan, conn, streams, tickVars, histVars>>
  /\ UNCHANGED <<regVars, obsVars>>

\* process_request, not an upgrade: the body is read and process_brp_batch
\* runs up to its first send.
HttpStart(c, body) ==
  /\ mbox # "none"
  /\ conn[c].st = "idle"
  /\ LET rec == [IdleConn EXCEPT !.kind = "http", !.shape = body.shape, !.items = body.items] IN
       IF body.shape = "garbage"
         THEN /\ conn' = [conn EXCEPT ![c] = [rec EXCEPT !.st = "done",
                                                        !.out = Some(ErrorBody("INVALID_REQUEST"))]]
              /\ chan' = chan
         ELSE AfterAdvance(c, rec, Advance(body.items, 1, <<>>), chan)
  /\ UNCHANGED <<mbox, mailbox, streams, tickVars, histVars>>
  /\ UNCHANGED <<regVars, obsVars>>

MailboxHasRoomOffByOne == Len(mailbox) <= CHANNEL_SIZE

\* channel::bounded(CHANNEL_SIZE): a send goes through only below capacity.
MailboxHasRoom == Len(mailbox) < CHANNEL_SIZE

SendRunsInline(c) ==
  /\ conn[c].st = "send"
  /\ conn' = [conn EXCEPT ![c].st = "recv"]
  /\ invoked' = Inc(invoked, <<c, conn[c].k>>)
  /\ chan' = [chan EXCEPT ![<<c, conn[c].k>>].buf =
                 <<[ok |-> TRUE, code |-> "none",
                    of |-> <<conn[c].items[conn[c].k].method, conn[c].items[conn[c].k].params>>]>>]
  /\ UNCHANGED <<mbox, mailbox, streams, tickVars, drained, pushed>>
  /\ UNCHANGED <<regVars, obsVars>>

\* The message put in front of the queued ones.
SendToFront(c) ==
  /\ conn[c].st = "send"
  /\ \/ /\ mbox = "open"
        /\ MailboxHasRoom
        /\ mailbox' = <<BrpMessage(<<c, conn[c].k>>, conn[c].items[conn[c].k])>> \o mailbox
        /\ waiting' = Append(waiting, <<c, conn[c].k>>)
     \/ /\ mbox = "dropped"
        /\ mailbox' = mailbox
        /\ waiting' = waiting
  /\ conn' = [conn EXCEPT ![c].st = "recv"]
  /\ UNCHANGED <<mbox, chan, streams, tickVars, histVars>>
  /\ UNCHANGED <<regVars, tickInv, yielded, term, spawned, despawned, quota>>

\* The task goes on to send its next item without waiting for the result.
SendThenNext(c) ==
  /\ conn[c].st = "send"
  /\ mbox = "open"
  /\ MailboxHasRoom
  /\ mailbox' = Append(mailbox, BrpMessage(<<c, conn[c].k>>, conn[c].items[conn[c].k]))
  /\ waiting' = Append(waiting, <<c, conn[c].k>>)
  /\ IF conn[c].k < Len(conn[c].items) /\ ItemValid(conn[c].items[conn[c].k + 1])
       THEN /\ conn' = [conn EXCEPT ![c].k = @ + 1]
            /\ chan' = [chan EXCEPT ![<<c, conn[c].k + 1>>] = [buf |-> <<>>, rx |-> TRUE]]
       ELSE /\ conn' = [conn EXCEPT ![c].st = "recv"]
            /\ chan' = chan
  /\ UNCHANGED <<mbox, streams, tickVars, histVars>>
  /\ UNCHANGED <<regVars, tickInv, yielded, term, spawned, despawned, quota>>

\* request_sender.send(BrpMessage {..}).await: suspended while the mailbox is
\* full; an Err (mailbox Receiver gone) is ignored and the message dropped.
Send(c) ==
  /\ conn[c].st = "send"
  /\ \/ /\ mbox = "open"
        /\ MailboxHasRoom
        /\ mailbox' = Append(mailbox, BrpMessage(<<c, conn[c].k>>, conn[c].items[conn[c].k]))
        /\ waiting' = Append(waiting, <<c, conn[c].k>>)
     \/ /\ mbox = "dropped"
        /\ mailbox' = mailbox
        /\ waiting' = waiting
  /\ conn' = [conn EXCEPT ![c].st = "recv"]
  /\ UNCHANGED <<mbox, chan, streams, tickVars, histVars>>
  /\ UNCHANGED <<regVars, tickInv, yielded, term, spawned, despawned, quota>>

\* result_receiver.recv().await? and the rest of process_single_request, then
\* the batch loop up to the next send.
HttpRecv(c) ==
  /\ conn[c].kind = "http"
  /\ conn[c].st = "recv"
  /\ LET rec == conn[c]
         m == <<c, rec.k>> IN
       \/ /\ RecvReady(m)
          /\ LET resp == BrpResponseNew(BrpRequest(rec.items[rec.k]).id, Head(chan[m].buf)) IN
               AfterAdvance(c, rec, Advance(rec.items, rec.k + 1, Append(rec.resps, resp)),
                            [chan EXCEPT ![m] = [buf |-> Tail(@.buf), rx |-> FALSE]])
       \/ /\ RecvClosed(m)
          /\ conn' = [conn EXCEPT ![c].st = "failed"]
          /\ chan' = [chan EXCEPT ![m].rx = FALSE]
  /\ UNCHANGED <<mbox, mailbox, streams, tickVars, histVars>>
  /\ UNCHANGED <<regVars, obsVars>>

\* handle_client: the client goes away while its request is pending; the
\* pending future is dropped with its Receiver (and an unsent message).
Disconnect(c) ==
  /\ conn[c].kind = "http"
  /\ conn[c].st \in {"send", "recv"}
  /\ conn' = [conn EXCEPT ![c].st = "gone"]
  /\ chan' = [chan EXCEPT ![<<c, conn[c].k>>] = [buf |-> <<>>, rx |-> FALSE]]
  /\ UNCHANGED <<mbox, mailbox, streams, tickVars, histVars>>
  /\ UNCHANGED <<regVars, obsVars>>

\* process_request on an upgrade request: validate_websocket_request, then the
\* detached process_brp_websocket task up to its send (its handshake may fail).
WsStart(c, query) ==
  /\ mbox # "none"
  /\ conn[c].st = "idle"
  /\ LET rec == [IdleConn EXCEPT !.kind = "ws", !.shape = query.shape, !.items = query.items] IN
       IF query.shape # "single" \/ ~ItemValid(query.items[1])
         THEN /\ conn' = [conn EXCEPT ![c] = [rec EXCEPT !.st = "done",
                                                        !.out = Some(ErrorBody("INVALID_REQUEST"))]]
              /\ chan' = chan
         ELSE \/ /\ conn' = [conn EXCEPT ![c] = [rec EXCEPT !.st = "send", !.k = 1,
                                                           !.out = Some([kind |-> "upgrade", v |-> <<>>])]]
                 /\ chan' = [chan EXCEPT ![<<c, 1>>] = [buf |-> <<>>, rx |-> TRUE]]
              \/ /\ conn' = [conn EXCEPT ![c] = [rec EXCEPT !.st = "failed", !.k = 1,
                                                           !.out = Some([kind |-> "upgrade", v |-> <<>>])]]
                 /\ chan' = chan
  /\ UNCHANGED <<mbox, mailbox, streams, tickVars, histVars>>
  /\ UNCHANGED <<regVars, obsVars>>

\* An if-let in place of the while-let: the task ends after its first frame.
WsRecvOnce(c) ==
  /\ conn[c].kind = "ws"
  /\ conn[c].st = "recv"
  /\ LET rec == conn[c]
         m == <<c, 1>> IN
       \/ /\ RecvReady(m)
          /\ conn' = [conn EXCEPT ![c].frames =
                        Append(@, BrpResponseNew(BrpRequest(rec.items[1]).id, Head(chan[m].buf))),
                                  ![c].st = "done"]
          /\ chan' = [chan EXCEPT ![m] = [buf |-> <<>>, rx |-> FALSE]]
       \/ /\ RecvClosed(m)
          /\ conn' = [conn EXCEPT ![c].st = "done"]
          /\ chan' = [chan EXCEPT ![m].rx = FALSE]
  /\ UNCHANGED <<mbox, mailbox, streams, tickVars, histVars>>
  /\ UNCHANGED <<regVars, obsVars>>

\* The while-let loop of process_brp_websocket: one result received and sent as
\* a text frame (the send may fail), or the loop ends on a closed channel.
WsRecv(c) ==
  /\ conn[c].kind = "ws"
  /\ conn[c].st = "recv"
  /\ LET rec == conn[c]
         m == <<c, 1>> IN
       \/ /\ RecvReady(m)
          /\ \/ /\ conn' = [conn EXCEPT ![c].frames =
                              Append(@, BrpResponseNew(BrpRequest(rec.items[1]).id, Head(chan[m].buf)))]
                /\ chan' = [chan EXCEPT ![m].buf = Tail(@)]
             \/ /\ conn' = [conn EXCEPT ![c].st = "failed"]
                /\ chan' = [chan EXCEPT ![m] = [buf |-> <<>>, rx |-> FALSE]]
       \/ /\ RecvClosed(m)
          /\ conn' = [conn EXCEPT ![c].st = "done"]
          /\ chan' = [chan EXCEPT ![m].rx = FALSE]
  /\ UNCHANGED <<mbox, mailbox, streams, tickVars, histVars>>
  /\ UNCHANGED <<regVars, obsVars>>

(* ------------------------------ process_remote_requests --------------- *)
\* The error sent for a method the registry does not know.
NotFoundResult(msg) == Err("METHOD_NOT_FOUND", <<msg.method>>)

\* world.run_system_with_input(system_id, message.params): the handler ran and
\* returned a value ("ok") or a domain error of its own ("err"), or the run
\* failed ("fault") and there is no handler result.
RunSystemWithInput(msg, outcome) ==
  IF outcome = "ok" THEN [ran |-> TRUE, out |-> Ok(<<msg.method, msg.params>>)]
  ELSE IF outcome = "err" THEN [ran |-> TRUE, out |-> Err("HANDLER_ERROR", <<msg.method, msg.params>>)]
  ELSE [ran |-> FALSE, out |-> NoResult]

\* Every error sent as an INTERNAL_ERROR.
HandlerResultMasksError(msg, outcome) ==
  IF RunSystemWithInput(msg, outcome).ran /\ RunSystemWithInput(msg, outcome).out.ok
    THEN RunSystemWithInput(msg, outcome).out
    ELSE Err("INTERNAL_ERROR", <<msg.method, msg.params>>)

\* What the system sends after running a handler: the handler's own result,
\* or an INTERNAL_ERROR for a failed run.
HandlerResult(msg, outcome) ==
  IF RunSystemWithInput(msg, outcome).ran
    THEN RunSystemWithInput(msg, outcome).out
    ELSE Err("INTERNAL_ERROR", <<msg.method, msg.params>>)

\* Removal after every result.
ShouldRemoveAlways(r, sent) == TRUE

\* Removal on a failed send only.
ShouldRemoveOnClosedOnly(r, sent) == ~sent

\* should_remove
ShouldRemove(r, sent) == ~r.ok \/ ~sent

\* The system going on at `back` with the result never sent.
SendBlockingSkipped(msg, r, back) ==
  /\ chan' = chan
  /\ pushed' = pushed
  /\ pc' = back
  /\ cur' = NoMsg
  /\ pend' = NoResult

\* A send that finds the Receiver gone ends the run of the system.
SendBlockingFatal(msg, r, back) ==
  IF CanCompleteSend(msg.id)
    THEN /\ chan' = ChanAfterSend(msg.id, r)
         /\ pushed' = PushedAfterSend(msg.id)
         /\ pc' = IF chan[msg.id].rx THEN back ELSE "idle"
         /\ cur' = NoMsg
         /\ pend' = NoResult
    ELSE /\ chan' = chan
         /\ pushed' = pushed
         /\ pc' = "blocked"
         /\ cur' = msg
         /\ pend' = r

\* message.sender.send_blocking(r) with the system going on at `back` once the
\* send returns; the system sits in "blocked" while the channel is full.
SendBlocking(msg, r, back) ==
  IF CanCompleteSend(msg.id)
    THEN /\ chan' = ChanAfterSend(msg.id, r)
         /\ pushed' = PushedAfterSend(msg.id)
         /\ pc' = back
         /\ cur' = NoMsg
         /\ pend' = NoResult
    ELSE /\ chan' = chan
         /\ pushed' = pushed
         /\ pc' = "blocked"
         /\ cur' = msg
         /\ pend' = r

StreamsAfterNoReturn(msg) == streams \cup {msg}

\* No entity is spawned.
StreamsAfterNever(msg) == streams

\* world.spawn(ActiveStream(..)) in the Stream arm only.
StreamsAfter(msg) == IF Lookup(msg.method) = "Stream" THEN streams \cup {msg} ELSE streams

\* Only the streams never invoked before.
CollectedNewOnly == {s \in streams : invoked[s.id] = 0}

\* world.query::<(Entity, &ActiveStream)>() collected: every ActiveStream
\* entity of the World, those spawned in this run included.
Collected == streams

\* One turn of the while-let try_recv loop, up to the handler call of a
\* Normal method.  On an empty mailbox the loop ends and the ActiveStream
\* entities are collected; with none to invoke the system returns.
DrainTurn ==
  IF mailbox = <<>>
    THEN /\ pc' = IF streams = {} THEN "idle" ELSE "streams"
         /\ todo' = Collected
         /\ toRemove' = {}
         /\ quota' = 0
         /\ UNCHANGED <<mailbox, chan, streams, cur, pend, histVars>>
         /\ UNCHANGED <<tickInv, yielded, term, spawned, despawned, waiting>>
    ELSE LET msg == Head(mailbox) IN
         /\ mailbox' = Tail(mailbox)
         /\ drained' = drained \cup {msg.id}
         /\ quota' = IF pc = "idle" THEN Len(mailbox) - 1
                     ELSE IF quota >= 0 THEN quota - 1 ELSE quota
         /\ streams' = StreamsAfter(msg)
         /\ spawned' = IF StreamsAfter(msg) # streams THEN Inc(spawned, msg.id) ELSE spawned
         /\ waiting' = IF Lookup(msg.method) = "Normal" THEN waiting ELSE Without(waiting, msg.id)
         /\ UNCHANGED <<todo, toRemove, invoked, tickInv, yielded, term, despawned>>
         /\ IF Lookup(msg.method) = "none"
              THEN SendBlocking(msg, NotFoundResult(msg), "drain")
              ELSE IF Lookup(msg.method) = "Stream"
                THEN /\ pc' = "drain"
                     /\ UNCHANGED <<chan, pushed, cur, pend>>
                ELSE /\ pc' = "run"
                     /\ cur' = msg
                     /\ UNCHANGED <<chan, pushed, pend>>

\* The system is entered: it returns at once without the mailbox resource,
\* else it makes the first turn of its loop.
TickBegin ==
  /\ pc = "idle"
  /\ mbox # "dropped"
  /\ IF mbox = "open" THEN DrainTurn
     ELSE UNCHANGED <<mailbox, chan, streams, tickVars, histVars, obsVars>>
  /\ UNCHANGED <<mbox, conn, regVars>>

\* A loop over a receive that returns only with a message.
DrainStepWaits ==
  /\ pc = "drain"
  /\ mailbox # <<>>
  /\ DrainTurn
  /\ UNCHANGED <<mbox, conn, regVars>>

\* A further turn of the loop.
DrainStep ==
  /\ pc = "drain"
  /\ DrainTurn
  /\ UNCHANGED <<mbox, conn, regVars>>

\* world.run_system_with_input for a Normal method returns, and its result
\* (or the INTERNAL_ERROR for a failed run) is sent.
RunNormal(outcome) ==
  /\ pc = "run"
  /\ invoked' = Inc(invoked, cur.id)
  /\ SendBlocking(cur, HandlerResult(cur, outcome), "drain")
  /\ waiting' = Without(waiting, cur.id)
  /\ UNCHANGED <<mbox, mailbox, conn, streams, todo, toRemove, drained>>
  /\ UNCHANGED <<regVars, tickInv, yielded, term, spawned, despawned, quota>>

\* A None marks the stream for removal.
RemoveAfterNoneMarks(s) == toRemove \cup {s}

\* to_remove after the handler returned None: should_remove is false.
RemoveAfterNone(s) == toRemove

\* One element of the filter_map over the collected streams: the handler is
\* run; None keeps the stream, a result is sent and decides should_remove.
StreamStep(s, outcome) ==
  /\ pc = "streams"
  /\ s \in todo
  /\ outcome = "ok" => pushed[s.id] < MaxYields
  /\ invoked' = Inc(invoked, s.id)
  /\ tickInv' = Inc(tickInv, s.id)
  /\ yielded' = IF outcome = "none" THEN yielded ELSE Inc(yielded, s.id)
  /\ term' = IF term[s.id] # "none" \/ outcome = "none" THEN term
             ELSE IF outcome \in {"err", "fault"} THEN [term EXCEPT ![s.id] = outcome]
             ELSE IF ~chan[s.id].rx THEN [term EXCEPT ![s.id] = "closed"]
             ELSE term
  /\ IF outcome = "none"
       THEN /\ todo' = todo \ {s}
            /\ toRemove' = RemoveAfterNone(s)
            /\ UNCHANGED <<chan, pushed, pc, cur, pend>>
       ELSE LET r == HandlerResult(s, outcome) IN
            /\ SendBlocking(s, r, "streams")
            /\ IF CanCompleteSend(s.id)
                 THEN /\ todo' = todo \ {s}
                      /\ toRemove' = IF ShouldRemove(r, SendOk(s.id)) THEN toRemove \cup {s} ELSE toRemove
                 ELSE UNCHANGED <<todo, toRemove>>
  /\ UNCHANGED <<mbox, mailbox, conn, streams, drained>>
  /\ UNCHANGED <<regVars, spawned, despawned, waiting, quota>>

\* A send_blocking that had to wait returns: the Receiver took the queued
\* value or went away.
Unblock ==
  /\ pc = "blocked"
  /\ CanCompleteSend(cur.id)
  /\ chan' = ChanAfterSend(cur.id, pend)
  /\ pushed' = PushedAfterSend(cur.id)
  /\ cur' = NoMsg
  /\ pend' = NoResult
  /\ IF cur \in todo
       THEN /\ pc' = "streams"
            /\ todo' = todo \ {cur}
            /\ toRemove' = IF ShouldRemove(pend, SendOk(cur.id)) THEN toRemove \cup {cur} ELSE toRemove
       ELSE /\ pc' = "drain"
            /\ UNCHANGED <<todo, toRemove>>
  /\ term' = IF cur \in todo /\ term[cur.id] = "none" /\ ~chan[cur.id].rx
               THEN [term EXCEPT ![cur.id] = "closed"] ELSE term
  /\ UNCHANGED <<mbox, mailbox, conn, streams, drained, invoked>>
  /\ UNCHANGED <<regVars, tickInv, yielded, spawned, despawned, waiting, quota>>

\* for entity in to_remove { world.despawn(entity) }, and the system returns.
Despawn ==
  /\ pc = "streams"
  /\ todo = {}
  /\ streams' = streams \ toRemove
  /\ toRemove' = {}
  /\ pc' = "idle"
  /\ despawned' = [m \in DOMAIN despawned |->
                     IF (\E s \in toRemove \cap streams : s.id = m) /\ despawned[m] < CountCap
                       THEN despawned[m] + 1 ELSE despawned[m]]
  /\ tickInv' = [m \in DOMAIN tickInv |-> 0]
  /\ UNCHANGED <<mbox, mailbox, chan, conn, cur, pend, todo, histVars>>
  /\ UNCHANGED <<regVars, yielded, term, spawned, waiting, quota>>

\* The App exits: the World is dropped with the BrpMailbox (and the messages
\* queued in it) and the ActiveStream entities; the I/O tasks live on.
Shutdown ==
  /\ pc = "idle"
  /\ mbox = "open"
  /\ mbox' = "dropped"
  /\ mailbox' = <<>>
  /\ streams' = {}
  /\ UNCHANGED <<chan, conn, tickVars, histVars, regVars, obsVars>>

(* ------------------------------ specification ------------------------- *)
Init ==
  /\ mbox = "none"
  /\ mailbox = <<>>
  /\ chan = [m \in MsgIds |-> [buf |-> <<>>, rx |-> FALSE]]
  /\ conn = [c \in Conns |-> IdleConn]
  /\ streams = {}
  /\ pc = "idle"
  /\ cur = NoMsg
  /\ pend = NoResult
  /\ todo = {}
  /\ toRemove = {}
  /\ drained = {}
  /\ invoked = [m \in MsgIds |-> 0]
  /\ pushed = [m \in MsgIds |-> 0]
  /\ methods = Build(PluginMethods, PluginStreamingMethods)
  /\ returned = None
  /\ regs = <<>>
  /\ tickInv = [m \in MsgIds |-> 0]
  /\ yielded = [m \in MsgIds |-> 0]
  /\ term = [m \in MsgIds |-> "none"]
  /\ spawned = [m \in MsgIds |-> 0]
  /\ despawned = [m \in MsgIds |-> 0]
  /\ waiting = <<>>
  /\ quota = 0
  /\ plugin = BuiltPlugin

Next ==
  \/ StartServer
  \/ \E c \in Conns : \E body \in Bodies(c) : HttpStart(c, body)
  \/ \E c \in Conns : \E query \in Queries(c) : WsStart(c, query)
  \/ \E c \in Conns : Send(c)
  \/ \E c \in Conns : HttpRecv(c)
  \/ \E c \in Conns : WsRecv(c)
  \/ \E c \in Conns : Disconnect(c)
  \/ TickBegin
  \/ DrainStep
  \/ \E outcome \in {"ok", "err", "fault"} : RunNormal(outcome)
  \/ \E s \in todo : \E outcome \in {"none", "ok", "err", "fault"} : StreamStep(s, outcome)
  \/ Unblock
  \/ Despawn
  \/ Shutdown

Spec == Init /\ [][Next]_vars

(* ------------------------------ the registry alone ------------------- *)
\* A RemoteMethods resource filled by insert calls, before any server runs.
RegNames == {"ping", "watch"}
RegHandlers == {RemoteMethod("Normal", 1), RemoteMethod("Normal", 2), RemoteMethod("Stream", 3)}

\* RemoteMethods::insert
Insert(name, handler) ==
  /\ Len(regs) < MaxRegs
  /\ methods' = InsertMap(methods, name, handler)
  /\ returned' = Get(methods, name)
  /\ regs' = Append(regs, <<name, handler>>)
  /\ UNCHANGED <<mbox, mailbox, chan, conn, streams, tickVars, histVars, obsVars, plugin>>

InitReg ==
  /\ mbox = "none"
  /\ mailbox = <<>>
  /\ chan = [m \in MsgIds |-> [buf |-> <<>>, rx |-> FALSE]]
  /\ conn = [c \in Conns |-> IdleConn]
  /\ streams = {}
  /\ pc = "idle"
  /\ cur = NoMsg
  /\ pend = NoResult
  /\ todo = {}
  /\ toRemove = {}
  /\ drained = {}
  /\ invoked = [m \in MsgIds |-> 0]
  /\ pushed = [m \in MsgIds |-> 0]
  /\ methods = NewMethods
  /\ returned = None
  /\ regs = <<>>
  /\ tickInv = [m \in MsgIds |-> 0]
  /\ yielded = [m \in MsgIds |-> 0]
  /\ term = [m \in MsgIds |-> "none"]
  /\ spawned = [m \in MsgIds |-> 0]
  /\ despawned = [m \in MsgIds |-> 0]
  /\ waiting = <<>>
  /\ quota = 0
  /\ plugin = BuiltPlugin

NextReg == \E name \in RegNames : \E handler \in RegHandlers : Insert(name, handler)

SpecReg == InitReg /\ [][NextReg]_vars

(* ------------------------------ the plugin being configured ----------- *)
\* A RemotePlugin from RemotePlugin::empty on: with_method and
\* with_stream_method calls, then build.  A handler is known by the place of
\* its call in its list, which is the order in which build registers it.
\* RemotePlugin::with_method
WithMethod(name) ==
  /\ ~plugin.built
  /\ Len(regs) < MaxCalls
  /\ plugin' = [plugin EXCEPT !.methods = Append(@, name)]
  /\ regs' = Append(regs, <<name, "Normal">>)
  /\ UNCHANGED <<mbox, mailbox, chan, conn, streams, tickVars, histVars, obsVars, methods, returned>>

\* RemotePlugin::with_stream_method
WithStreamMethod(name) ==
  /\ ~plugin.built
  /\ Len(regs) < MaxCalls
  /\ plugin' = [plugin EXCEPT !.streaming_methods = Append(@, name)]
  /\ regs' = Append(regs, <<name, "Stream">>)
  /\ UNCHANGED <<mbox, mailbox, chan, conn, streams, tickVars, histVars, obsVars, methods, returned>>

\* RemotePlugin::build: both lists drained into a new RemoteMethods.
BuildPlugin ==
  /\ ~plugin.built
  /\ methods' = Build(plugin.methods, plugin.streaming_methods)
  /\ plugin' = BuiltPlugin
  /\ UNCHANGED <<mbox, mailbox, chan, conn, streams, tickVars, histVars, obsVars, returned, regs>>

InitBuild ==
  /\ mbox = "none"
  /\ mailbox = <<>>
  /\ chan = [m \in MsgIds |-> [buf |-> <<>>, rx |-> FALSE]]
  /\ conn = [c \in Conns |-> IdleConn]
  /\ streams = {}
  /\ pc = "idle"
  /\ cur = NoMsg
  /\ pend = NoResult
  /\ todo = {}
  /\ toRemove = {}
  /\ drained = {}
  /\ invoked = [m \in MsgIds |-> 0]
  /\ pushed = [m \in MsgIds |-> 0]
  /\ methods = NewMethods
  /\ returned = None
  /\ regs = <<>>
  /\ tickInv = [m \in MsgIds |-> 0]
  /\ yielded = [m \in MsgIds |-> 0]
  /\ term = [m \in MsgIds |-> "none"]
  /\ spawned = [m \in MsgIds |-> 0]
  /\ despawned = [m \in MsgIds |-> 0]
  /\ waiting = <<>>
  /\ quota = 0
  /\ plugin = Empty

NextBuild ==
  \/ \E name \in RegNames : WithMethod(name)
  \/ \E name \in RegNames : WithStreamMethod(name)
  \/ BuildPlugin

SpecBuild == InitBuild /\ [][NextBuild]_vars

(* ------------------------------ a mailbox near capacity --------------- *)
\* The mailbox one short of CHANNEL_SIZE: Prefill earlier connections each
\* enqueued a call and went away before it was drained.
Prefill == CHANNEL_SIZE - 1
Departed == (NConn + 1)..(NConn + Prefill)

DepartedConn(c) ==
  [IdleConn EXCEPT !.st = "gone", !.kind = "http", !.shape = "single",
                   !.items = <<Call(c, "ping")>>, !.k = 1]

InitBP ==
  /\ mbox = "open"
  /\ mailbox = [i \in 1..Prefill |-> BrpMessage(<<NConn + i, 1>>, Call(NConn + i, "ping"))]
  /\ chan = [m \in (Conns \cup Departed) \X (1..MaxBatch) |-> [buf |-> <<>>, rx |-> FALSE]]
  /\ conn = [c \in Conns \cup Departed |-> IF c \in Conns THEN IdleConn ELSE DepartedConn(c)]
  /\ streams = {}
  /\ pc = "idle"
  /\ cur = NoMsg
  /\ pend = NoResult
  /\ todo = {}
  /\ toRemove = {}
  /\ drained = {}
  /\ invoked = [m \in (Conns \cup Departed) \X (1..MaxBatch) |-> 0]
  /\ pushed = [m \in (Conns \cup Departed) \X (1..MaxBatch) |-> 0]
  /\ methods = Build(PluginMethods, PluginStreamingMethods)
  /\ returned = None
  /\ regs = <<>>
  /\ tickInv = [m \in (Conns \cup Departed) \X (1..MaxBatch) |-> 0]
  /\ yielded = [m \in (Conns \cup Departed) \X (1..MaxBatch) |-> 0]
  /\ term = [m \in (Conns \cup Departed) \X (1..MaxBatch) |-> "none"]
  /\ spawned = [m \in (Conns \cup Departed) \X (1..MaxBatch) |-> 0]
  /\ despawned = [m \in (Conns \cup Departed) \X (1..MaxBatch) |-> 0]
  /\ waiting = [i \in 1..Prefill |-> <<NConn + i, 1>>]
  /\ quota = 0
  /\ plugin = BuiltPlugin

BodiesBP(c) ==
  {[shape |-> "single", items |-> <<Call(c, m)>>] : m \in {"ping", "nope"}}
    \cup (IF c = 1 THEN {[shape |-> "batch", items |-> <<Call(c, "ping"), Call(c, "nope")>>]} ELSE {})

QueriesBP(c) ==
  IF c = 2 THEN {[shape |-> "single", items |-> <<Call(c, m)>>] : m \in {"ping", "watch"}} ELSE {}

Dispatch ==
  \/ TickBegin
  \/ DrainStep
  \/ \E outcome \in {"ok", "err", "fault"} : RunNormal(outcome)
  \/ \E s \in todo : \E outcome \in {"none", "ok", "err", "fault"} : StreamStep(s, outcome)
  \/ Unblock
  \/ Despawn

NextBP ==
  \/ \E c \in Conns : \E body \in BodiesBP(c) : HttpStart(c, body)
  \/ \E c \in Conns : \E query \in QueriesBP(c) : WsStart(c, query)
  \/ \E c \in Conns : Send(c)
  \/ \E c \in Conns : HttpRecv(c)
  \/ \E c \in Conns : WsRecv(c)
  \/ \E c \in Conns : Disconnect(c)
  \/ Dispatch

SpecBP == InitBP /\ [][NextBP]_vars

\* The system keeps being run and never stays stuck in a step that can be
\* taken; every connection task that can go on is scheduled.
Fairness ==
  /\ WF_vars(Dispatch)
  /\ \A c \in Conns : WF_vars(Send(c)) /\ WF_vars(HttpRecv(c)) /\ WF_vars(WsRecv(c))

FairSpec == SpecBP /\ Fairness

(* ------------------------------ claims -------------------------------- *)
\* The request item a message id stands for, once its connection has a body.
HasItem(m) == m[2] <= Len(conn[m[1]].items)
ItemOf(m) == conn[m[1]].items[m[2]]
Ids == DOMAIN chan
Tasks == DOMAIN conn

\* The claims' own reading of a request item and of the registry.
WellFormed(item) == item.obj /\ item.jsonrpc = "2.0" /\ item.method # NoField
KindOf(name) == IF name \in DOMAIN Registry THEN Registry[name] ELSE "unregistered"
Accepted(m) == HasItem(m) /\ WellFormed(ItemOf(m))

\* The system has finished with message m: it was drained and is not the
\* message being worked on.
Processed(m) == m \in drained /\ cur.id # m

\* The id a request carries, as a JSON value (null when it carries none).
RequestIdJson(item) == IF item.id = None THEN Null ELSE item.id[1]

\* The results a requester can see for m: queued on its channel, or already
\* turned into a response or a frame.
SeenPayloads(m) ==
  {chan[m].buf[i] : i \in 1..Len(chan[m].buf)}
    \cup (IF conn[m[1]].kind = "http" /\ m[2] <= Len(conn[m[1]].resps)
            THEN {conn[m[1]].resps[m[2]].payload} ELSE {})
    \cup (IF conn[m[1]].kind = "ws" /\ m[2] = 1
            THEN {conn[m[1]].frames[i].payload : i \in 1..Len(conn[m[1]].frames)} ELSE {})

\* C1: a drained message of a Normal method has its handler invoked exactly
\* once and exactly one send_blocking made on its channel before the system
\* moves on from it (so within the run that drained it); at no time is there a
\* second invocation or a second send, and it never becomes a stream.
C1_NormalOnce ==
  \A m \in Ids :
    (Accepted(m) /\ KindOf(ItemOf(m).method) = "Normal") =>
      /\ invoked[m] <= 1
      /\ pushed[m] <= 1
      /\ ~IsStream(m)
      /\ Processed(m) => (invoked[m] = 1 /\ pushed[m] = 1)
      /\ m \notin drained => (invoked[m] = 0 /\ pushed[m] = 0)

\* C1 witness: a Normal call answered and its message done with, while the
\* system is in its stream pass with another message held as a stream.
C1_Witness ==
  \E m \in Ids :
    /\ Accepted(m) /\ KindOf(ItemOf(m).method) = "Normal"
    /\ Processed(m) /\ pushed[m] = 1 /\ invoked[m] = 1
    /\ pc = "streams"
    /\ conn[m[1]].st = "done"
    /\ \E n \in Ids : n # m /\ n \in drained /\ IsStream(n)

\* C2: a drained message whose method the registry does not know gets one
\* METHOD_NOT_FOUND error sent, no handler run and no ActiveStream; whatever its
\* requester sees for it is that error, never a success.
C2_UnknownMethod ==
  \A m \in Ids :
    (Accepted(m) /\ KindOf(ItemOf(m).method) = "unregistered") =>
      /\ invoked[m] = 0
      /\ ~IsStream(m)
      /\ pushed[m] <= 1
      /\ Processed(m) => pushed[m] = 1
      /\ \A r \in SeenPayloads(m) : ~r.ok /\ r.code = "METHOD_NOT_FOUND" /\ r.of = <<ItemOf(m).method>>

\* C2 witness: the requester of an unknown method holds the error response.
C2_Witness ==
  \E m \in Ids :
    /\ Accepted(m) /\ KindOf(ItemOf(m).method) = "unregistered"
    /\ conn[m[1]].kind = "http" /\ conn[m[1]].st = "done"
    /\ conn[m[1]].resps[m[2]].payload.code = "METHOD_NOT_FOUND"

\* C3: the response to a valid single HTTP request carries the request's id
\* (null when the request has none) and a payload computed for that request's
\* own method and params.
C3_SingleResponse ==
  \A c \in Tasks :
    (conn[c].kind = "http" /\ conn[c].shape = "single" /\ WellFormed(conn[c].items[1])
       /\ conn[c].out # None) =>
      LET item == conn[c].items[1]
          resp == conn[c].out[1].v IN
        /\ conn[c].out[1].kind = "object"
        /\ resp.jsonrpc = "2.0"
        /\ resp.id = RequestIdJson(item)
        /\ resp.payload.of = IF KindOf(item.method) = "unregistered" THEN <<item.method>>
                                                              ELSE <<item.method, item.params>>

\* C3 witness: two connections called the same method, both results were
\* produced before either was taken, and connection 1 holds its response.
C3_Witness ==
  /\ \A c \in {1, 2} : conn[c].kind = "http" /\ conn[c].shape = "single"
  /\ conn[1].items[1].method = conn[2].items[1].method
  /\ conn[1].st = "done" /\ conn[1].out[1].v.payload.ok /\ conn[1].out[1].v.id = Num(1)
  /\ conn[2].st = "recv" /\ RecvReady(<<2, 1>>) /\ chan[<<2, 1>>].buf[1].ok

\* C4 (as claimed): an undecodable HTTP body is answered with a response
\* envelope whose id is null and whose error code is INVALID_REQUEST, and
\* nothing is enqueued for it.
C4_UndecodableBody ==
  \A c \in Tasks :
    (conn[c].kind = "http" /\ conn[c].shape = "garbage" /\ conn[c].out # None) =>
      /\ conn[c].out[1].kind = "object"
      /\ conn[c].out[1].v.id = Null
      /\ conn[c].out[1].v.payload.code = "INVALID_REQUEST"
      /\ \A k \in 1..MaxBatch : ~InMailbox(<<c, k>>) /\ <<c, k>> \notin drained

\* The response a rejected item is owed: INVALID_REQUEST under the id it carries.
RejectionOf(item) ==
  [jsonrpc |-> "2.0",
   id |-> IF item.obj THEN RequestIdJson(item) ELSE Null,
   payload |-> Err("INVALID_REQUEST", <<>>)]

\* resp answers item: a rejection for a rejected item, else the dispatcher's
\* result for this item's method and params under this item's id.
Answers(resp, item) ==
  IF ~WellFormed(item) THEN resp = RejectionOf(item)
  ELSE /\ resp.jsonrpc = "2.0"
       /\ resp.id = RequestIdJson(item)
       /\ IF KindOf(item.method) = "unregistered"
            THEN resp.payload = Err("METHOD_NOT_FOUND", <<item.method>>)
            ELSE /\ resp.payload.of = <<item.method, item.params>>
                 /\ resp.payload.code \in {"none", "HANDLER_ERROR", "INTERNAL_ERROR"}

IsBatch(c) == conn[c].kind = "http" /\ conn[c].shape = "batch"

\* C5 (amended): while a batch is worked on, the responses gathered answer the
\* items before the current one, one each and in order; the body written is the
\* array of exactly N such responses (the empty array, with nothing enqueued,
\* for N = 0); the task fails, writing no body, only when the World is gone
\* and a result channel closed without a value.
C5_BatchResponses ==
  \A c \in Tasks : IsBatch(c) =>
    LET rec == conn[c]
        n == Len(rec.items) IN
      /\ \A i \in 1..Len(rec.resps) : Answers(rec.resps[i], rec.items[i])
      /\ rec.st \in {"send", "recv", "failed", "gone"} => Len(rec.resps) = rec.k - 1
      /\ rec.st = "done" =>
           /\ rec.out = Some([kind |-> "array", v |-> rec.resps])
           /\ Len(rec.resps) = n
      /\ rec.st # "done" => rec.out = None
      /\ rec.st = "failed" => mbox = "dropped"
      /\ n = 0 => \A k \in 1..MaxBatch : <<c, k>> \notin drained /\ ~InMailbox(<<c, k>>)

\* C5 witness: a batch whose first item was rejected and whose second item was
\* run is answered with both responses.
C5_Witness ==
  \E c \in Tasks :
    /\ IsBatch(c) /\ conn[c].st = "done" /\ Len(conn[c].items) = 2
    /\ ~WellFormed(conn[c].items[1]) /\ WellFormed(conn[c].items[2])
    /\ Len(conn[c].out[1].v) = 2
    /\ conn[c].out[1].v[2].payload.ok

\* C5 (as claimed): a result channel closing without a value for one item does
\* not keep the other items' responses from being written: no batch task ends
\* without a body while holding the response of another item.
C5_AsClaimed ==
  /\ C5_BatchResponses
  /\ \A c \in Tasks : (IsBatch(c) /\ conn[c].st = "failed") => Len(conn[c].resps) = 0

\* C6: an HTTP item that is an object with an id member and is rejected is
\* answered with INVALID_REQUEST under that id; the task never sends, waits or
\* fails at such an item but goes on with the items after it, and a finished
\* task has answered every item and written its body (the connection stays in
\* service).
C6_RejectedItemId ==
  \A c \in Tasks : conn[c].kind = "http" =>
    \A i \in 1..Len(conn[c].items) :
      LET item == conn[c].items[i] IN
        (item.obj /\ item.id # None /\ ~WellFormed(item)) =>
          /\ i <= Len(conn[c].resps) =>
               /\ conn[c].resps[i].id = item.id[1]
               /\ conn[c].resps[i].payload = Err("INVALID_REQUEST", <<>>)
          /\ conn[c].st \in {"send", "recv", "failed", "gone"} => conn[c].k # i
          /\ conn[c].st = "done" => (conn[c].out # None /\ Len(conn[c].resps) = Len(conn[c].items))

\* C6 witness: a batch whose first item has the wrong version is answered for
\* both items, the second one run by its handler.
C6_Witness ==
  \E c \in Tasks :
    /\ IsBatch(c) /\ conn[c].st = "done" /\ Len(conn[c].items) = 2
    /\ conn[c].items[1].obj /\ conn[c].items[1].jsonrpc = "1.0" /\ conn[c].items[1].id = Some(Num(c))
    /\ conn[c].out[1].v[1].id = Num(c)
    /\ conn[c].out[1].v[2].payload.of = <<"ping", c>>

\* C7: every message in the mailbox was built from an item that parsed and has
\* jsonrpc "2.0", and carries that item's method and params; an item the front
\* end rejected is never enqueued, drained or run, over HTTP and WebSocket alike.
C7_MailboxValidated ==
  /\ \A i \in 1..Len(mailbox) :
       /\ Accepted(mailbox[i].id)
       /\ mailbox[i].method = ItemOf(mailbox[i].id).method
       /\ mailbox[i].params = ItemOf(mailbox[i].id).params
  /\ \A m \in Ids :
       ~Accepted(m) => (~InMailbox(m) /\ m \notin drained /\ ~IsStream(m)
                         /\ invoked[m] = 0 /\ pushed[m] = 0)

\* C7 witness: messages of an HTTP batch (after a rejected first item) and of a
\* WebSocket request are queued together.
C7_Witness ==
  /\ Len(mailbox) = 2
  /\ \E i, j \in 1..2 :
       /\ conn[mailbox[i].id[1]].kind = "http" /\ mailbox[i].id[2] = 2
       /\ ~WellFormed(conn[mailbox[i].id[1]].items[1])
       /\ conn[mailbox[j].id[1]].kind = "ws"

\* C8: the mailbox never holds more than CHANNEL_SIZE messages; a message
\* enters only below capacity and behind the ones queued, which stay as they
\* are; while the mailbox is full every task at its send stays there (or its
\* client leaves); and messages leave only from the head, taken by the system.
MailboxStep ==
  /\ Len(mailbox') > Len(mailbox) =>
       /\ Len(mailbox) < CHANNEL_SIZE
       /\ Len(mailbox') = Len(mailbox) + 1
       /\ SubSeq(mailbox', 1, Len(mailbox)) = mailbox
  /\ Len(mailbox) = CHANNEL_SIZE =>
       \A c \in Tasks : (conn[c].st = "send" => conn'[c].st \in {"send", "gone"})
  /\ (mailbox' # mailbox /\ Len(mailbox') <= Len(mailbox)) =>
       (conn' = conn /\ pc \in {"idle", "drain"} /\ mailbox' = Tail(mailbox))

C8_Backpressure == [](Len(mailbox) <= CHANNEL_SIZE) /\ [][MailboxStep]_vars

\* C8 witness: the mailbox is full, holding a live connection's message behind
\* the older ones, and another task is suspended at its send.
C8_Witness ==
  /\ Len(mailbox) = CHANNEL_SIZE
  /\ mailbox[CHANNEL_SIZE].id[1] \in Conns
  /\ \E c \in Conns : conn[c].st = "send"

\* C9: with the system run again and again and the tasks scheduled, a task at
\* its send for a Normal or unregistered method (suspended on a full mailbox or
\* not) gets its message drained and takes its result into a response or a
\* frame, unless its client leaves first.
C9_EventuallyAnswered ==
  \A c \in Conns : \A k \in 1..MaxBatch :
    (conn[c].st = "send" /\ conn[c].k = k
       /\ KindOf(conn[c].items[k].method) \in {"Normal", "unregistered"})
      ~> \/ conn[c].st = "gone"
         \/ /\ <<c, k>> \in drained
            /\ \/ conn[c].kind = "http" /\ Len(conn[c].resps) >= k
               \/ conn[c].kind = "ws" /\ (Len(conn[c].frames) = 1 \/ conn[c].st = "failed")

\* C9 witness: a task suspended at its send on a full mailbox.
C9_Witness ==
  \E c \in Conns :
    /\ conn[c].st = "send"
    /\ Len(mailbox) = CHANNEL_SIZE
    /\ KindOf(conn[c].items[conn[c].k].method) \in {"Normal", "unregistered"}

\* C10: a step of a connection task changes only its own data, the mailbox and
\* result channels: never the ActiveStream entities, the system's position or
\* the record of handler runs and sends.  A handler runs only in a step of the
\* system (in its handler call or its stream pass), one handler per step, and
\* the entities change only in a step of the system or when the World goes.
HandlerStep ==
  /\ conn' # conn => UNCHANGED <<streams, tickVars, histVars, mbox>>
  /\ invoked' # invoked =>
       /\ conn' = conn
       /\ \/ pc = "run" /\ invoked' = Inc(invoked, cur.id)
          \/ pc = "streams" /\ \E s \in todo : invoked' = Inc(invoked, s.id)
  /\ pushed' # pushed => (conn' = conn /\ mbox' = mbox)
  /\ streams' # streams =>
       (conn' = conn /\ (pc \in {"idle", "drain", "streams"} \/ mbox' = "dropped"))

C10_HandlersInTick == [][HandlerStep]_vars

\* C10 witness: a Normal handler is running while one task waits for its
\* result, another is at its send and a message is queued.
C10_Witness ==
  /\ pc = "run"
  /\ \E c, d \in Tasks : c # d /\ conn[c].st = "recv" /\ cur.id[1] = c /\ conn[d].st = "send"

(* ------------------------------ claims C11..C20 ----------------------- *)
\* The handler the latest of the insert calls in seq gave to name n, None
\* when no call named n.
LatestOf(seq, n) ==
  LET I == {i \in 1..Len(seq) : seq[i][1] = n} IN
    IF I = {} THEN None ELSE Some(seq[CHOOSE i \in I : \A j \in I : j <= i][2])

\* C11: after any sequence of insert calls every name maps to the handler of
\* the latest call that named it (names never inserted have no entry, and a
\* call leaves the entries of the other names as they were), and the last
\* call returned the handler the name had before it, nothing for a new name.
C11_Registration ==
  /\ \A n \in RegNames :
       IF n \in DOMAIN methods THEN LatestOf(regs, n) = Some(methods[n])
       ELSE LatestOf(regs, n) = None
  /\ regs # <<>> =>
       returned = LatestOf(SubSeq(regs, 1, Len(regs) - 1), regs[Len(regs)][1])

\* C11 witness: a name inserted, another name inserted, and the first name
\* inserted again with another handler, which returned the first handler.
C11_Witness ==
  /\ Len(regs) = 3
  /\ regs[1][1] = regs[3][1]
  /\ regs[2][1] # regs[1][1]
  /\ regs[1][2] # regs[3][2]
  /\ returned = Some(regs[1][2])
  /\ methods[regs[3][1]] = regs[3][2]
  /\ methods[regs[2][1]] = regs[2][2]

\* C12: no stream handler is invoked twice in one stream pass, only handlers
\* of live ActiveStream entities are invoked, a run of the system that finds
\* entities makes the pass, and when the pass ends every entity alive in it
\* has been invoked once.
PassStep ==
  /\ \A m \in DOMAIN tickInv : tickInv'[m] > tickInv[m] => IsStream(m) /\ pc = "streams"
  /\ (pc = "streams" /\ pc' = "idle") => \A s \in streams : tickInv[s.id] = 1
  /\ (pc \in {"idle", "drain"} /\ pc' = "idle" /\ conn' = conn /\ mbox' = mbox /\ mbox = "open") =>
       streams = {}

C12_OncePerTick == [](\A m \in DOMAIN tickInv : tickInv[m] <= 1) /\ [][PassStep]_vars

\* C12 witness: a pass is over in which two entities were invoked, one of
\* them not for the first time.
C12_Witness ==
  /\ pc = "streams"
  /\ todo = {}
  /\ Cardinality(streams) = 2
  /\ \A s \in streams : tickInv[s.id] = 1
  /\ \E s \in streams : invoked[s.id] = 2

\* The system waits in send_blocking on the channel of m.
BlockedOn(m) == pc = "blocked" /\ cur.id = m

\* C13: in the step in which a stream handler returns an error, that error
\* goes to the stream's channel (queued, or refused because the Receiver is
\* gone, or held by a send_blocking that waits); from then on the handler is
\* not invoked again and nothing else is pushed for the stream; and its
\* entity does not outlive the run of the system: it is marked for removal
\* while the pass goes on and gone when the system is back at rest.
ErrorStep ==
  \A m \in DOMAIN term :
    /\ (term[m] = "none" /\ term'[m] = "err") =>
         /\ IsStream(m)
         /\ yielded'[m] = yielded[m] + 1
         /\ \/ /\ chan[m].rx
               /\ pushed'[m] = pushed[m] + 1
               /\ chan'[m].buf = Append(chan[m].buf, chan'[m].buf[Len(chan'[m].buf)])
               /\ chan'[m].buf[Len(chan'[m].buf)].code = "HANDLER_ERROR"
            \/ /\ ~chan[m].rx
               /\ pushed'[m] = pushed[m] + 1
               /\ chan'[m] = chan[m]
            \/ /\ pc' = "blocked"
               /\ cur'.id = m
               /\ pend'.code = "HANDLER_ERROR"
               /\ pushed'[m] = pushed[m]
               /\ chan'[m] = chan[m]
    /\ term[m] = "err" =>
         /\ tickInv'[m] <= tickInv[m]
         /\ invoked'[m] = invoked[m]
         /\ yielded'[m] = yielded[m]
         /\ pushed'[m] # pushed[m] =>
              (BlockedOn(m) /\ pend.code = "HANDLER_ERROR" /\ pushed'[m] = pushed[m] + 1)

C13_ErrorEndsStream ==
  /\ [](\A m \in DOMAIN term :
          term[m] = "err" =>
            /\ IsStream(m) =>
                 /\ pc \in {"streams", "blocked"}
                 /\ BlockedOn(m) \/ \E s \in toRemove : s.id = m
            /\ ~BlockedOn(m) => pushed[m] = yielded[m])
  /\ [][ErrorStep]_vars

\* C13 witness: a WebSocket stream whose handler returned a value and, on a
\* later invocation, an error: both were forwarded, the entity is gone and
\* the system at rest.
C13_Witness ==
  \E c \in Tasks :
    /\ conn[c].kind = "ws"
    /\ term[<<c, 1>>] = "err"
    /\ invoked[<<c, 1>>] = 2
    /\ Len(conn[c].frames) = 2
    /\ ~conn[c].frames[2].payload.ok
    /\ ~IsStream(<<c, 1>>)
    /\ pc = "idle"

\* m names an accepted request for a streaming method.
StreamId(m) == Accepted(m) /\ KindOf(ItemOf(m).method) = "Stream"

\* C14: an invocation of a stream handler that returns nothing changes no
\* channel, counts no push and leaves the entity and to_remove as they are;
\* a push for a stream happens only for an invocation that returned a result
\* (in its step, or when the send_blocking it waits in returns); so at any
\* time the pushes made for a stream are as many as the invocations that
\* returned a result, less the one a waiting send_blocking still holds.
QuietStep ==
  \A m \in DOMAIN tickInv :
    /\ (tickInv'[m] > tickInv[m] /\ yielded'[m] = yielded[m]) =>
         /\ chan' = chan
         /\ pushed' = pushed
         /\ streams' = streams
         /\ toRemove' = toRemove
         /\ pc' = pc
    /\ (StreamId(m) /\ pushed'[m] # pushed[m]) =>
         /\ pushed'[m] = pushed[m] + 1
         /\ BlockedOn(m) \/ (tickInv'[m] > tickInv[m] /\ yielded'[m] = yielded[m] + 1)

C14_PushesMatchYields ==
  /\ [](\A m \in DOMAIN pushed :
          StreamId(m) => pushed[m] + (IF BlockedOn(m) THEN 1 ELSE 0) = yielded[m])
  /\ [][QuietStep]_vars

\* C14 witness: a WebSocket stream invoked more than once of which one
\* invocation returned a value: one frame was sent and the entity lives on.
C14_Witness ==
  \E c \in Tasks :
    /\ conn[c].kind = "ws"
    /\ StreamId(<<c, 1>>)
    /\ invoked[<<c, 1>>] = 2
    /\ yielded[<<c, 1>>] = 1
    /\ pushed[<<c, 1>>] = 1
    /\ Len(conn[c].frames) = 1
    /\ conn[c].frames[1].payload.ok
    /\ IsStream(<<c, 1>>)
    /\ pc = "idle"

\* The last frame a WebSocket task sent carried an error.
ErrorForwarded(c) ==
  Len(conn[c].frames) > 0 /\ ~conn[c].frames[Len(conn[c].frames)].payload.ok

\* C15, in a state: while the task of a WebSocket stream has not failed at
\* its socket, the frames it sent and the results still queued are together
\* the results pushed; every frame is a response under the request's id with
\* a result of the request's handler; only the last frame can carry an
\* error; and once the error is forwarded and the system is back at rest
\* the channel is empty with no Sender left.
FramesInv ==
  \A c \in Tasks :
    (conn[c].kind = "ws" /\ StreamId(<<c, 1>>)) =>
      /\ conn[c].st \in {"send", "recv", "done"} =>
           Len(conn[c].frames) + Len(chan[<<c, 1>>].buf) = pushed[<<c, 1>>]
      /\ \A i \in 1..Len(conn[c].frames) :
           /\ conn[c].frames[i].jsonrpc = "2.0"
           /\ conn[c].frames[i].id = RequestIdJson(conn[c].items[1])
           /\ conn[c].frames[i].payload.of = <<conn[c].items[1].method, conn[c].items[1].params>>
           /\ i < Len(conn[c].frames) => conn[c].frames[i].payload.ok
      /\ (ErrorForwarded(c) /\ pc = "idle") =>
           (chan[<<c, 1>>].buf = <<>> /\ ~IsStream(<<c, 1>>) /\ ~InMailbox(<<c, 1>>))
      /\ conn[c].st = "done" => chan[<<c, 1>>].buf = <<>>

\* C15, in a step: a frame is sent for the result at the head of the channel,
\* which leaves the channel; queued results otherwise stay in place behind
\* which new ones are queued (or are dropped with the Receiver when the task
\* fails); no frame follows a forwarded error.
FrameStep ==
  \A c \in Tasks :
    (conn[c].kind = "ws" /\ StreamId(<<c, 1>>)) =>
      LET m == <<c, 1>> IN
        /\ conn'[c].frames # conn[c].frames =>
             /\ chan[m].buf # <<>>
             /\ conn'[c].frames = Append(conn[c].frames, conn'[c].frames[Len(conn'[c].frames)])
             /\ conn'[c].frames[Len(conn'[c].frames)].payload = Head(chan[m].buf)
             /\ chan'[m].buf = Tail(chan[m].buf)
             /\ ~ErrorForwarded(c)
        /\ chan'[m].buf # chan[m].buf =>
             \/ conn'[c].frames # conn[c].frames
             \/ conn'[c].st = "failed" /\ chan'[m].buf = <<>>
             \/ /\ conn' = conn
                /\ Len(chan'[m].buf) = Len(chan[m].buf) + 1
                /\ SubSeq(chan'[m].buf, 1, Len(chan[m].buf)) = chan[m].buf
        /\ conn[c].st \in {"done", "failed"} => conn'[c] = conn[c]

\* C15: the frames of a WebSocket stream are the results pushed, in order,
\* none skipped and none twice, each under the request's id; and after the
\* terminal error is forwarded the channel closes and the task ends.
C15_StreamFrames ==
  /\ []FramesInv
  /\ [][FrameStep]_vars
  /\ \A c \in Conns : (conn[c].st = "recv" /\ ErrorForwarded(c)) ~> (conn[c].st = "done")

\* C15 witness: a WebSocket stream forwarded a value and then the error that
\* ended it, and its task is over.
C15_Witness ==
  \E c \in Tasks :
    /\ conn[c].kind = "ws"
    /\ StreamId(<<c, 1>>)
    /\ conn[c].st = "done"
    /\ Len(conn[c].frames) = 2
    /\ conn[c].frames[1].payload.ok
    /\ ~conn[c].frames[2].payload.ok
    /\ pushed[<<c, 1>>] = 2

FairMain == Spec /\ Fairness

\* A WebSocket task whose request is accepted and names a Normal or an
\* unregistered method.
WsOneShot(c) ==
  /\ conn[c].kind = "ws"
  /\ Accepted(<<c, 1>>)
  /\ KindOf(conn[c].items[1].method) \in {"Normal", "unregistered"}

\* C16, in a state: such a task never has more than one frame sent and one
\* result pushed; the frame answers the request under its id; once it is
\* sent no Sender of the channel is left; and a task that ended after its
\* message was drained has sent its one frame and left the channel empty.
OneShotInv ==
  \A c \in Tasks :
    WsOneShot(c) =>
      LET m == <<c, 1>> IN
        /\ Len(conn[c].frames) <= 1
        /\ pushed[m] <= 1
        /\ Len(conn[c].frames) = 1 =>
             /\ Answers(conn[c].frames[1], conn[c].items[1])
             /\ chan[m].buf = <<>>
             /\ ~InMailbox(m) /\ ~IsStream(m) /\ cur.id # m
        /\ (conn[c].st = "done" /\ m \in drained) =>
             (Len(conn[c].frames) = 1 /\ chan[m].buf = <<>>)

\* C16, in a step: the frame is sent for the result queued on the channel,
\* and a task that is over does nothing more.
OneShotStep ==
  \A c \in Tasks :
    WsOneShot(c) =>
      /\ conn'[c].frames # conn[c].frames =>
           (conn[c].frames = <<>> /\ Len(chan[<<c, 1>>].buf) = 1 /\ chan'[<<c, 1>>].buf = <<>>)
      /\ conn[c].st \in {"done", "failed"} => conn'[c] = conn[c]

\* C16: a WebSocket request for a Normal or unregistered method gets the one
\* result of its command as one text frame, after which the channel is
\* closed and the task ends without another frame.
C16_OneFrame == []OneShotInv /\ [][OneShotStep]_vars

\* C16 witness: a WebSocket call of a Normal method is over, its one frame
\* carrying the handler's value.
C16_Witness ==
  \E c \in Tasks :
    /\ WsOneShot(c)
    /\ KindOf(conn[c].items[1].method) = "Normal"
    /\ conn[c].st = "done"
    /\ Len(conn[c].frames) = 1
    /\ conn[c].frames[1].payload.ok

\* C17 as claimed: an upgrade request whose embedded request is missing,
\* undecodable, a batch, malformed or of the wrong version gets the error as
\* a WebSocket text frame, and nothing is enqueued for it.
C17_InvalidUpgradeFrame ==
  \A c \in Tasks :
    (conn[c].kind = "ws" /\ ~(conn[c].shape = "single" /\ WellFormed(conn[c].items[1]))) =>
      /\ Len(conn[c].frames) = 1
      /\ ~conn[c].frames[1].payload.ok
      /\ ~InMailbox(<<c, 1>>) /\ <<c, 1>> \notin drained

\* C18, in a step taken while the World lives: an entity leaves only when the
\* stream pass ends, only after its stream met an ending condition, and its
\* despawn is counted once; when the pass ends the entities whose streams met
\* an ending condition leave and all the others stay; an ending condition is
\* met only in an invocation of the handler or when its waiting send returns;
\* and an entity that appears is spawned for a message never spawned for.
RemovalStep ==
  mbox' = mbox =>
    /\ \A s \in streams \ streams' :
         /\ term[s.id] # "none"
         /\ pc = "streams" /\ pc' = "idle"
         /\ despawned'[s.id] = despawned[s.id] + 1
    /\ (pc = "streams" /\ pc' = "idle") =>
         \A s \in streams : (s \in streams') <=> (term[s.id] = "none")
    /\ \A m \in DOMAIN term :
         term'[m] # term[m] =>
           /\ term[m] = "none"
           /\ IsStream(m)
           /\ tickInv'[m] > tickInv[m] \/ BlockedOn(m)
           /\ term'[m] = "closed" => ~chan[m].rx
    /\ \A s \in streams' \ streams : spawned[s.id] = 0 /\ despawned[s.id] = 0
    /\ \A m \in DOMAIN despawned :
         despawned'[m] # despawned[m] => \E s \in streams \ streams' : s.id = m

\* C18: an ActiveStream entity is removed only on an ending condition (the
\* handler returned an error, the run of the handler failed, or the send of
\* its result found the Receiver gone), in the run of the system in which
\* the condition is met, and once; it stays after a value that was sent;
\* and a removed entity does not come back.
C18_RemovedOnce ==
  /\ [](\A m \in DOMAIN despawned :
          /\ despawned[m] <= 1
          /\ spawned[m] <= 1
          /\ IsStream(m) => (spawned[m] = 1 /\ despawned[m] = 0)
          /\ (term[m] # "none" /\ pc \in {"idle", "drain", "run"}) => ~IsStream(m))
  /\ [][RemovalStep]_vars

\* C18 witness: one stream was removed because its Receiver was gone when a
\* value was sent, while another, whose value was sent, lives on after the
\* pass.
C18_Witness ==
  /\ pc = "idle"
  /\ \E m \in DOMAIN term : term[m] = "closed" /\ despawned[m] = 1 /\ ~IsStream(m)
  /\ \E s \in streams : yielded[s.id] = 1 /\ pushed[s.id] = 1 /\ term[s.id] = "none"

\* C19, in a step: a stream message taken from the head of the mailbox gets
\* its entity in that step, one entity, its first, and the step runs no
\* handler and sends nothing; a stream handler runs only in the stream pass,
\* when the drain loop is over and no drained message is in work; and when
\* the pass ends every entity has been invoked once, new or old.
SpawnStep ==
  /\ (mbox' = mbox /\ mailbox # <<>> /\ mailbox' = Tail(mailbox)
        /\ KindOf(Head(mailbox).method) = "Stream") =>
       /\ spawned'[Head(mailbox).id] = 1
       /\ streams' \ streams = {Head(mailbox)}
  /\ \A m \in DOMAIN spawned :
       spawned'[m] # spawned[m] =>
         /\ spawned[m] = 0 /\ spawned'[m] = 1
         /\ StreamId(m)
         /\ mailbox # <<>> /\ Head(mailbox).id = m /\ mailbox' = Tail(mailbox)
         /\ \E s \in streams' : s.id = m /\ streams' = streams \cup {s} /\ s \notin streams
         /\ invoked' = invoked /\ tickInv' = tickInv /\ pushed' = pushed /\ chan' = chan
  /\ \A m \in DOMAIN tickInv :
       tickInv'[m] > tickInv[m] => (pc = "streams" /\ cur = NoMsg /\ spawned[m] = 1)
  /\ (pc = "streams" /\ pc' = "idle") =>
       \A s \in streams : tickInv[s.id] = 1 /\ invoked[s.id] >= 1

\* C19: draining a message for a streaming method spawns its one entity and
\* runs nothing; the entity's first invocation is in the stream pass of the
\* same run of the system (no entity is left uninvoked when the system is at
\* rest), after the drain loop, in the pass that invokes the older entities.
C19_SpawnThenPass ==
  /\ [](pc = "idle" => \A s \in streams : invoked[s.id] >= 1)
  /\ [][SpawnStep]_vars

\* C19 witness: in the stream pass the entity spawned in this run has had its
\* first invocation and an older entity its second.
C19_Witness ==
  /\ pc = "streams"
  /\ \E s, t \in streams :
       /\ invoked[s.id] = 1 /\ tickInv[s.id] = 1
       /\ invoked[t.id] = 2 /\ tickInv[t.id] = 1

\* The system deals with message m in this step: it runs the handler of a
\* Normal method, spawns the entity of a streaming one, or takes a message
\* for an unregistered method, which it answers at once.
DealtWith(m) ==
  \/ pc = "run" /\ invoked'[m] # invoked[m]
  \/ spawned'[m] # spawned[m]
  \/ m \in drained' \ drained /\ HasItem(m) /\ KindOf(ItemOf(m).method) = "unregistered"

\* C20: whenever the system deals with a message, that message is the oldest
\* of the messages that entered the mailbox and were not dealt with before,
\* in one run of the system and over several; the messages waiting keep the
\* order in which they entered.
FifoStep ==
  /\ \A m \in DOMAIN invoked :
       DealtWith(m) => (waiting # <<>> /\ Head(waiting) = m /\ waiting' = Tail(waiting))
  /\ waiting' # waiting =>
       \/ waiting # <<>> /\ waiting' = Tail(waiting) /\ DealtWith(Head(waiting))
       \/ Len(waiting') = Len(waiting) + 1 /\ SubSeq(waiting', 1, Len(waiting)) = waiting
          /\ conn'[waiting'[Len(waiting')][1]].st = "recv"
          /\ conn[waiting'[Len(waiting')][1]].st = "send"

C20_FifoOrder == [][FifoStep]_vars

\* C20 witness: the handler of the oldest waiting message runs while a
\* message of another connection waits behind it, an earlier message having
\* been dealt with before.
C20_Witness ==
  /\ pc = "run"
  /\ Len(waiting) = 2
  /\ cur.id = waiting[1]
  /\ waiting[2][1] # waiting[1][1]
  /\ Cardinality(drained) = 2

\* C21, in a step: a message is taken only from a mailbox that holds one, and
\* it is the head; a step of the system at the top of its loop that finds the
\* mailbox empty takes nothing, runs nothing and leaves the loop, for the
\* stream pass or for the end of the run.
DrainEndStep ==
  /\ drained' # drained =>
       /\ mailbox # <<>>
       /\ mailbox' = Tail(mailbox)
       /\ drained' = drained \cup {Head(mailbox).id}
  /\ (pc \in {"idle", "drain"} /\ mailbox = <<>> /\ pc' # pc) =>
       /\ pc' \in {"idle", "streams"}
       /\ mailbox' = mailbox /\ drained' = drained /\ invoked' = invoked /\ pushed' = pushed

\* C21: the drain loop never waits for a message: at the top of the loop the
\* system can always take its step, whatever the mailbox holds, and so can a
\* run that starts, with a mailbox or before one exists; on an empty mailbox
\* the loop ends, and before the mailbox exists nothing is ever taken.
C21_DrainNeverWaits ==
  /\ [](pc = "drain" => ENABLED DrainStep)
  /\ []((pc = "idle" /\ mbox # "dropped") => ENABLED TickBegin)
  /\ [](mbox = "none" => (drained = {} /\ pc = "idle"))
  /\ [][DrainEndStep]_vars

\* C21 witness: the loop has taken a message and is back at its top with the
\* mailbox empty, while a connection task is about to send the next message.
C21_Witness ==
  /\ pc = "drain"
  /\ mailbox = <<>>
  /\ drained # {}
  /\ \E c \in Tasks : conn[c].st = "send"

\* C22: a run of the system takes no more messages than the mailbox held when
\* its drain loop began (so never more than the capacity of the mailbox): a
\* message enqueued while the loop is running is not taken in that run.
C22_DrainBounded == quota >= 0 /\ quota <= CHANNEL_SIZE

\* What leaves the system after a run of the handler of msg, held back in a
\* waiting send or put on the channel of a Receiver that lives: the handler's
\* own result as it is, or an error with the internal-error code when the
\* run failed.
SentAfterRun(msg, outcome) ==
  (pc' = "blocked" \/ chan[msg.id].rx) =>
    LET r == IF pc' = "blocked" THEN pend' ELSE chan'[msg.id].buf[Len(chan'[msg.id].buf)] IN
      IF RunSystemWithInput(msg, outcome).ran
        THEN r = RunSystemWithInput(msg, outcome).out
        ELSE ~r.ok /\ r.code = "INTERNAL_ERROR"

\* C23, in a step: a run of a handler, of a Normal or of a streaming method,
\* sends what SentAfterRun says; a send that waited delivers the result it
\* held; a handler is run once in a step and a stream's handler never again
\* after its stream met an ending condition.
ResultStep ==
  /\ \A outcome \in {"ok", "err", "fault"} :
       /\ RunNormal(outcome) => SentAfterRun(cur, outcome)
       /\ \A s \in todo : StreamStep(s, outcome) => SentAfterRun(s, outcome)
  /\ (pc = "blocked" /\ pc' # "blocked" /\ chan[cur.id].rx) =>
       (chan'[cur.id].buf # <<>> /\ chan'[cur.id].buf[Len(chan'[cur.id].buf)] = pend)
  /\ \A m \in DOMAIN invoked :
       invoked'[m] # invoked[m] =>
         /\ invoked[m] < CountCap => invoked'[m] = invoked[m] + 1
         /\ IsStream(m) => term[m] = "none"

\* C23: a failed run is answered with the internal-error code and a result
\* the handler returned is sent as it is, for Normal and streaming methods;
\* the handler of a Normal method runs at most once for a message, and no
\* result with the internal-error code is on a channel unless a run failed.
C23_FaultsAndResults ==
  /\ [](\A m \in Ids : ~IsStream(m) /\ term[m] = "none" /\ spawned[m] = 0 => invoked[m] <= 1)
  /\ [](\A m \in Ids : \A i \in 1..Len(chan[m].buf) :
          chan[m].buf[i].code = "INTERNAL_ERROR" => (invoked[m] >= 1 /\ ~chan[m].buf[i].ok))
  /\ [][ResultStep]_vars

\* C23 witness: the failed run of a stream handler left an internal error on
\* its channel, and the domain error a Normal handler returned is on another.
C23_Witness ==
  \E m, n \in Ids :
    /\ spawned[m] = 1 /\ chan[m].buf # <<>> /\ chan[m].buf[Len(chan[m].buf)].code = "INTERNAL_ERROR"
    /\ spawned[n] = 0 /\ chan[n].buf # <<>> /\ chan[n].buf[1].code = "HANDLER_ERROR"

\* C24, in a step in which a result is sent on a channel whose Receiver is
\* gone: nothing is queued anywhere, the mailbox and the registry are as a
\* send that went through leaves them, and the system goes on where it goes
\* on after such a send: at the top of the drain loop, or in the stream pass
\* with every other collected stream still to invoke and no other entity
\* marked or removed.
ClosedPushStep ==
  \A m \in DOMAIN pushed :
    (pushed'[m] # pushed[m] /\ ~chan[m].rx) =>
      /\ chan' = chan
      /\ methods' = methods /\ mbox' = mbox /\ conn' = conn
      /\ mailbox' = (IF pc \in {"idle", "drain"} THEN Tail(mailbox) ELSE mailbox)
      /\ streams' = streams
      /\ IF pc \in {"idle", "drain", "run"} \/ (pc = "blocked" /\ cur \notin todo)
           THEN pc' = "drain" /\ todo' = todo /\ toRemove' = toRemove
           ELSE /\ pc' = "streams"
                /\ \E s \in todo : s.id = m /\ todo' = todo \ {s} /\ toRemove' = toRemove \cup {s}

\* C24: a send to a Receiver that is gone is not an error of the run: the
\* system goes on with the messages and the streams that remain, the run
\* ends only with nothing collected left to invoke, and every entity has
\* then been invoked.
C24_ClosedPushIgnored ==
  /\ [](pc = "idle" => (todo = {} /\ cur = NoMsg))
  /\ [][ClosedPushStep /\ ((pc = "streams" /\ pc' = "idle") =>
                             (todo = {} /\ \A s \in streams : tickInv[s.id] = 1))]_vars

\* C24 witness: in the stream pass a send found the Receiver of one stream
\* gone, and another collected stream is still to be invoked.
C24_Witness ==
  /\ pc = "streams"
  /\ \E s \in toRemove : term[s.id] = "closed" /\ ~chan[s.id].rx
  /\ todo # {}

\* C25: no send of a result by the system has to wait: the system is never
\* held in a send_blocking on a channel that is full, holding a result it
\* could not put on it.
C25_PushNeverBlocks == pc # "blocked" /\ pend = NoResult

\* C26: when the Receiver of a stream's channel is gone while its entity
\* lives, the entity is eventually removed (and with it the invocations of
\* its handler end), the system being run again and again, whatever the
\* handler yields from then on.
C26_GoneReceiverRemoved ==
  \A m \in MsgIds : (IsStream(m) /\ ~chan[m].rx) ~> ~IsStream(m)

\* The messages of connection c that sit in the mailbox.
QueuedOf(c) == {i \in 1..Len(mailbox) : mailbox[i].id[1] = c}

\* C27: of one HTTP request at most one message is in the mailbox and at most
\* one result channel has its Receiver; and when item k is about to be sent,
\* is queued or was taken by the system, every item before it was dealt with
\* first: a rejected one has its response gathered, an accepted one was
\* taken by the system, its result sent, received by the task and its
\* Receiver dropped; the task, while it lives, has gathered the responses of
\* exactly the items before the one it is at.
C27_OneOutstanding ==
  \A c \in Tasks :
    conn[c].kind = "http" =>
      /\ Cardinality(QueuedOf(c)) <= 1
      /\ Cardinality({k \in 1..MaxBatch : chan[<<c, k>>].rx}) <= 1
      /\ conn[c].st \in {"send", "recv"} =>
           (Len(conn[c].resps) = conn[c].k - 1 /\ chan[<<c, conn[c].k>>].rx)
      /\ \A k \in 1..MaxBatch :
           (Sending(<<c, k>>) \/ InMailbox(<<c, k>>) \/ <<c, k>> \in drained) =>
             /\ Accepted(<<c, k>>)
             /\ k <= conn[c].k
             /\ \A j \in 1..(k - 1) :
                  IF Accepted(<<c, j>>)
                    THEN /\ Processed(<<c, j>>)
                         /\ pushed[<<c, j>>] >= 1
                         /\ chan[<<c, j>>] = [buf |-> <<>>, rx |-> FALSE]
                         /\ conn[c].resps[j].payload.of[1] = ItemOf(<<c, j>>).method
                    ELSE ~conn[c].resps[j].payload.ok

\* C27 witness: the second item of a batch is in the mailbox after the first
\* was executed and its result received.
C27_Witness ==
  \E c \in Tasks :
    /\ IsBatch(c)
    /\ InMailbox(<<c, 2>>)
    /\ invoked[<<c, 1>>] = 1
    /\ Len(conn[c].resps) = 1

\* The names given in the with_method calls, in order, and those given in
\* the with_stream_method calls.
CallsOf(kind) ==
  LET picked == SelectSeq(regs, LAMBDA r : r[2] = kind) IN
    [i \in 1..Len(picked) |-> picked[i][1]]

\* The place in list of the last call that gave name n.
LastCall(list, n) == CHOOSE i \in 1..Len(list) : list[i] = n /\ \A j \in (i + 1)..Len(list) : list[j] # n

\* C28: after build the registry has an entry for exactly the names given in
\* some call; a name given in a with_stream_method call is registered as
\* Stream, with the handler of the last such call, whatever with_method
\* calls gave it too, before or after; any other name is registered as
\* Normal with the handler of the last with_method call that gave it.
C28_BuiltRegistry ==
  plugin.built =>
    /\ DOMAIN methods = {regs[i][1] : i \in 1..Len(regs)}
    /\ \A n \in DOMAIN methods :
         IF \E i \in 1..Len(regs) : regs[i] = <<n, "Stream">>
           THEN methods[n] = RemoteMethod("Stream", Len(CallsOf("Normal")) + LastCall(CallsOf("Stream"), n))
           ELSE methods[n] = RemoteMethod("Normal", LastCall(CallsOf("Normal"), n))

\* C28 witness: built from four calls: one name given to with_stream_method
\* and then to with_method, registered as Stream, and another name given to
\* with_method twice, registered with the handler of the second call.
C28_Witness ==
  /\ plugin.built
  /\ Len(regs) = 4
  /\ \E n, o \in RegNames :
       /\ n # o
       /\ \E i, j \in 1..4 : i < j /\ regs[i] = <<n, "Stream">> /\ regs[j] = <<n, "Normal">>
       /\ methods[n].kind = "Stream"
       /\ Cardinality({i \in 1..4 : regs[i] = <<o, "Normal">>}) = 2
       /\ methods[o] = RemoteMethod("Normal", 3)

====
